---- MODULE Spec2Model ----
(***************************************************************************)
(* The box-box order-fulfilment pipeline as state machines:                *)
(*   - panettiere (gRPC baker): MakeDough, the sleep ticker, wake-ups;      *)
(*   - maestro (orchestrator): startTurn, processNewOrder, requestDough     *)
(*     through the retrying gRPC client, sendToDeliveryQueue, ack, smoke;   *)
(*   - paddock-gateway: the in-process broadcaster (GoChannelOrderPubSubber)*)
(*     with its SSE handlers, and the JetStream observer                    *)
(*     (NATSOrderPubSubber).                                                *)
(* A mutex-protected section that cannot block is one atomic step; every    *)
(* point where the Go code can be preempted with the lock released, or is   *)
(* blocked on a channel, is a position (pc) of its own.                     *)
(***************************************************************************)
EXTENDS Naturals, Integers, Sequences, FiniteSets, TLC

(***************************************************************************)
(* Bounds of the model.                                                    *)
(***************************************************************************)
\* Concurrent gRPC callers of the panettiere (the server runs one goroutine per call).
NumCallers == 2
\* Pizza orders that may be submitted.
NumOrders == 1
\* SSE observers of the in-process broadcaster.
NumHandlers == 2
\* Events the gateway may publish.
MaxEvents == 2

\* cfg.Retries of the maestro's gRPC client (a configuration value).
Retries == 2
\* m.settings.OrderBatchSize (a configuration value).
OrderBatchSize == 2
\* Unparseable payloads that may appear on orders.waiting_to_cook.*.
MaxMalformed == 1
\* Successful publishes to orders.waiting_delivery.* (more than this fail).
MaxDeliveryPubs == 2
\* The k of the redelivery scenario: deliveries rejected before the dough is made.
RejectionsBeforeDough == 3

Callers == 1..NumCallers
OrderIds == 1..NumOrders
\* The caller id under which the maestro's gRPC client reaches the panettiere.
MaestroCaller == 1

VARIABLES
    \* ---- panettiereService (src/unnamed/part_005, lines 148-159)
    isSleeping,        \* p.isSleeping
    isWorkingOnDough,  \* p.isWorkingOnDough
    shouldSleep,       \* p.shouldSleep
    status,            \* p.status
    wakeTimers,        \* wake-up goroutines that are in time.Sleep(sleepDuration)
    oversleeping,      \* the oversleeping draw of the sleep in progress
    callPc,            \* position of each MakeDough call
    callOrder,         \* req.OrderId of each MakeDough call
    callResult,        \* what each MakeDough call returned
    owed               \* calls that were in their working section at a tick and
                       \* have not yet run their release

panVars == <<isSleeping, isWorkingOnDough, shouldSleep, status, wakeTimers,
             oversleeping, callPc, callOrder, callResult, owed>>

VARIABLES
    \* ---- the ORDERS stream and the maestro's durable consumer
    stream,        \* the messages of the stream, in publication order
    nextDeliver,   \* stream positions the consumer has gone past
    redeliverQ,    \* positions waiting to be delivered again, oldest first
    ackPending,    \* positions delivered and not acknowledged
    acked,         \* positions acknowledged
    submitted,     \* order ids OrderNewPizza has generated
    request,       \* the request body each order id came from (<<>>: none yet)
    response,      \* the HTTP status OrderNewPizza answered it with (0: none yet)
    malformed,     \* unparseable payloads published so far
    \* ---- maestroHandlerV1 (src/maestro/handler.go, lines 161-175)
    mPc,           \* position of the startTurn goroutine
    batch,         \* messages of the fetched batch still to handle
    cur,           \* the message processNewOrder is handling (0: none)
    attempts,      \* MakeDough attempts of the current requestDough
    mStatus,       \* m.status
    isSmoking,     \* m.isSmoking
    isLunching,    \* m.isLunching
    hasTicketed,   \* startTurn's hasTicketed
    lunchWaiters,  \* goroutines blocked on <-lunchTicker.C
    oversmoked,    \* smoke's hasOversmoked
    \* ---- what happened to each delivery (history)
    doughOk,       \* requestDough succeeded for cur in this delivery
    pubOk,         \* sendToDeliveryQueue succeeded for cur in this delivery
    exhausted,     \* messages whose latest delivery ended with the panettiere's
                   \* ResourceExhausted and that were not fetched again since
    trail          \* per order, while its deliveries are tracked: how many ended
                   \* with ResourceExhausted before the first dough, how many
                   \* MakeDough calls returned dough, whether a republish or an
                   \* acknowledgement failed

ingressVars == <<request, response>>
queueVars == <<stream, nextDeliver, redeliverQ, ackPending, acked, submitted,
               malformed, ingressVars>>
maestroVars == <<mPc, batch, cur, attempts, mStatus, isSmoking, isLunching,
                 hasTicketed, lunchWaiters, oversmoked, doughOk, pubOk, exhausted,
                 trail>>

VARIABLES
    \* ---- GoChannelOrderPubSubber and its SSE handlers (src/unnamed/part_003)
    liveEventSubscribers, \* keys of g.liveEventSubscribers
    mu,            \* the PubOrder call holding g.mu (0: nobody)
    hPc,           \* position of each GetLiveOrdersSSE handler
    hCancelled,    \* the handler's request context is done
    hEvent,        \* the event the handler took from its channel
    hReceived,     \* events written to the handler's client
    pubPc,         \* position of the PubOrder call of each event
    pubRemaining,  \* subscribers the range loop has not reached
    pubTarget,     \* the subscriber the loop is sending to (0: none)
    \* ---- NATSOrderPubSubber observers (src/paddock-gateway/handler.go)
    nSubs,         \* keys of n.subs
    nPc,           \* position of each observer's handler
    nCursor,       \* stream positions the observer's consumer has gone past
    nEvent,        \* the stream position the handler took from orderCh
    nReceived,     \* stream positions written to the observer's client
    nRegLen        \* length of the stream when the observer subscribed

VARIABLES
    \* ---- the maestro process (src/maestro/main.go)
    mainPc         \* main: "running", "stopping" (signal received), "exited"

VARIABLES
    \* ---- callers of OrderPubSubber.UnsubLiveOrders outside the handlers' own call
    unsubReturns   \* per implementation and handle: what each such call returned

unsubVars == <<unsubReturns>>

VARIABLES
    \* ---- maestroHandlerV1.smoke (src/maestro/handler.go)
    sleepDuration, \* seconds passed to time.Sleep by the smoke in progress (0: none)
    smokeHistogram \* seconds last recorded in m.smokeHistogram (0: nothing yet)

smokeVars == <<sleepDuration, smokeHistogram>>

VARIABLES
    \* ---- the health goroutines of the panettiere's and the maestro's main
    natsConnected, \* nc.IsConnected()
    hlPc,          \* per loop: "publish" (at SetServingStatus) or "poll" (at the if)
    hlStatus,      \* per loop: its local variable status
    hlServing,     \* per loop: the status its health server reports
    hlObserved     \* per loop: what its last poll found: "none", "up", "down"

healthVars == <<natsConnected, hlPc, hlStatus, hlServing, hlObserved>>

VARIABLES
    \* ---- LoadConfig of the paddock-gateway (src/unnamed/part_001)
    cors,          \* the CORSSettings viper unmarshalled
    corsResult     \* "none" before validate.Struct, then "ok" or "error"

configVars == <<cors, corsResult>>

VARIABLES
    \* ---- the websocket MainHandler with h.mu (src/unnamed/part_002)
    wsMu,          \* the handler holding h.mu (0: nobody)
    wsSubs,        \* keys of h.liveEventSubscribers
    wsOpen,        \* the sockets upgraded and not closed
    wsPc,          \* per handler: "none", "lock", "loop", "write", "cleanup", "returned"
    wsEvent,       \* per handler: the order it is writing (0: none)
    wsReceived,    \* per handler: the orders written to its socket
    wsOrderPc,     \* per order: OrderNewPizza at "idle", "range", "send", "done"
    wsRemaining,   \* per order: subscribers the range loop has still to visit
    wsTarget       \* per order: the subscriber it is sending to (0: none)

wsVars == <<wsMu, wsSubs, wsOpen, wsPc, wsEvent, wsReceived, wsOrderPc, wsRemaining,
            wsTarget>>

\* The components that run beside the services' request paths.
sideVars == <<configVars, wsVars>>

procVars == <<mainPc, unsubVars, smokeVars, healthVars, sideVars>>

chanVars == <<liveEventSubscribers, mu, hPc, hCancelled, hEvent, hReceived,
              pubPc, pubRemaining, pubTarget>>
natsVars == <<nSubs, nPc, nCursor, nEvent, nReceived, nRegLen>>
gwVars == <<chanVars, natsVars>>

\* Everything the panettiere's own steps leave alone.
notPanVars == <<queueVars, maestroVars, gwVars, procVars>>

vars == <<panVars, queueVars, maestroVars, gwVars, procVars>>

(***************************************************************************)
(* panettiere                                                              *)
(***************************************************************************)
\* Status strings, as sequences so that the one carrying an order id compares with
\* the others.
StatusIdle == <<"idle">>
StatusSleeping == <<"sleeping">>
StatusMaking(o) == <<"making dough of order", o>>

PanInit ==
    /\ isSleeping = FALSE
    /\ isWorkingOnDough = FALSE
    /\ shouldSleep = FALSE
    /\ status = StatusIdle
    /\ wakeTimers = 0
    /\ oversleeping = FALSE
    /\ callPc = [c \in Callers |-> "idle"]
    /\ callOrder = [c \in Callers |-> 0]
    /\ callResult = [c \in Callers |-> "none"]
    /\ owed = {}

\* The block both sleep sites share: isSleeping, the oversleeping draw, the
\* status and the goroutine that will wake the panettiere up.
GoToSleep ==
    /\ isSleeping' = TRUE
    /\ \E drawn \in BOOLEAN : oversleeping' = drawn
    /\ status' = StatusSleeping
    /\ wakeTimers' = wakeTimers + 1

SleepTick_SleepsAgainWhileSleeping ==
    /\ IF ~isWorkingOnDough
         THEN /\ GoToSleep
              /\ UNCHANGED shouldSleep
         ELSE /\ shouldSleep' = TRUE
              /\ UNCHANGED <<isSleeping, oversleeping, status, wakeTimers>>
    /\ owed' = owed \cup {c \in Callers : callPc[c] = "work"}
    /\ UNCHANGED <<isWorkingOnDough, callPc, callOrder, callResult>>
    /\ UNCHANGED notPanVars

\* One tick of the sleep ticker (the body of case <-p.sleepTicker.C).
SleepTick ==
    /\ IF ~isWorkingOnDough /\ ~isSleeping
         THEN /\ GoToSleep
              /\ UNCHANGED shouldSleep
         ELSE IF isWorkingOnDough
                THEN /\ shouldSleep' = TRUE
                     /\ UNCHANGED <<isSleeping, oversleeping, status, wakeTimers>>
                ELSE UNCHANGED <<isSleeping, oversleeping, status, wakeTimers,
                                 shouldSleep>>
    /\ owed' = owed \cup {c \in Callers : callPc[c] = "work"}
    /\ UNCHANGED <<isWorkingOnDough, callPc, callOrder, callResult>>
    /\ UNCHANGED notPanVars

\* The wake-up goroutine, except that it ends without clearing isSleeping.
WakeUp_StaysAsleep ==
    /\ wakeTimers > 0
    /\ wakeTimers' = wakeTimers - 1
    /\ UNCHANGED <<isSleeping, oversleeping, status>>
    /\ UNCHANGED <<isWorkingOnDough, shouldSleep, callPc, callOrder, callResult, owed>>
    /\ UNCHANGED notPanVars

\* The wake-up goroutine, after time.Sleep(sleepDuration).
WakeUp ==
    /\ wakeTimers > 0
    /\ wakeTimers' = wakeTimers - 1
    /\ isSleeping' = FALSE
    /\ oversleeping' = FALSE
    /\ status' = StatusIdle
    /\ UNCHANGED <<isWorkingOnDough, shouldSleep, callPc, callOrder, callResult, owed>>
    /\ UNCHANGED notPanVars

\* A client other than the maestro calls MakeDough.
ClientCall(c) ==
    /\ callPc[c] = "idle"
    /\ \E o \in OrderIds : callOrder' = [callOrder EXCEPT ![c] = o]
    /\ callPc' = [callPc EXCEPT ![c] = "check"]
    /\ callResult' = [callResult EXCEPT ![c] = "none"]
    /\ UNCHANGED <<isSleeping, isWorkingOnDough, shouldSleep, status, wakeTimers,
                   oversleeping, owed>>
    /\ UNCHANGED notPanVars

\* The sleeping check, except that a rejected call leaves a sleep request behind.
MakeDoughCheck_RejectionRequestsSleep(c) ==
    /\ callPc[c] = "check"
    /\ IF isSleeping
         THEN /\ callResult' = [callResult EXCEPT ![c] = "ResourceExhausted"]
              /\ callPc' = [callPc EXCEPT ![c] = "ret"]
              /\ shouldSleep' = TRUE
         ELSE /\ callPc' = [callPc EXCEPT ![c] = "mark"]
              /\ UNCHANGED <<callResult, shouldSleep>>
    /\ UNCHANGED <<isSleeping, isWorkingOnDough, status, wakeTimers,
                   oversleeping, callOrder, owed>>
    /\ UNCHANGED notPanVars

\* MakeDough, the sleeping check under RLock.
MakeDoughCheck(c) ==
    /\ callPc[c] = "check"
    /\ IF isSleeping
         THEN /\ callResult' = [callResult EXCEPT ![c] = "ResourceExhausted"]
              /\ callPc' = [callPc EXCEPT ![c] = "ret"]
         ELSE /\ callPc' = [callPc EXCEPT ![c] = "mark"]
              /\ UNCHANGED callResult
    /\ UNCHANGED <<isSleeping, isWorkingOnDough, shouldSleep, status, wakeTimers,
                   oversleeping, callOrder, owed>>
    /\ UNCHANGED notPanVars

\* MakeDough, "Mark as working on dough" under Lock.
MakeDoughMark(c) ==
    /\ callPc[c] = "mark"
    /\ isWorkingOnDough' = TRUE
    /\ status' = StatusMaking(callOrder[c])
    /\ callPc' = [callPc EXCEPT ![c] = "work"]
    /\ UNCHANGED <<isSleeping, shouldSleep, wakeTimers, oversleeping, callOrder,
                   callResult, owed>>
    /\ UNCHANGED notPanVars

\* MakeDough, the first half of the deferred block, once the dough is made.
MakeDoughRelease(c) ==
    /\ callPc[c] = "work"
    /\ isWorkingOnDough' = FALSE
    /\ status' = StatusIdle
    /\ callPc' = [callPc EXCEPT ![c] = "checkAndSleep"]
    /\ owed' = owed \ {c}
    /\ UNCHANGED <<isSleeping, shouldSleep, wakeTimers, oversleeping, callOrder,
                   callResult>>
    /\ UNCHANGED notPanVars

\* checkAndSleep, called last by the deferred block; then MakeDough returns.
CheckAndSleep(c) ==
    /\ callPc[c] = "checkAndSleep"
    /\ IF shouldSleep /\ ~isWorkingOnDough /\ ~isSleeping
         THEN /\ GoToSleep
              /\ shouldSleep' = FALSE
         ELSE UNCHANGED <<isSleeping, oversleeping, status, wakeTimers, shouldSleep>>
    /\ callPc' = [callPc EXCEPT ![c] = "ret"]
    /\ callResult' = [callResult EXCEPT ![c] = "OK"]
    /\ UNCHANGED <<isWorkingOnDough, callOrder, owed>>
    /\ UNCHANGED notPanVars

\* The client has its answer.
ClientReturn(c) ==
    /\ callPc[c] = "ret"
    /\ callPc' = [callPc EXCEPT ![c] = "idle"]
    /\ UNCHANGED <<isSleeping, isWorkingOnDough, shouldSleep, status, wakeTimers,
                   oversleeping, callOrder, callResult, owed>>
    /\ UNCHANGED notPanVars

PanServer ==
    \/ SleepTick
    \/ WakeUp
    \/ \E c \in Callers : MakeDoughCheck(c)
    \/ \E c \in Callers : MakeDoughMark(c)
    \/ \E c \in Callers : MakeDoughRelease(c)
    \/ \E c \in Callers : CheckAndSleep(c)

PanClients ==
    \/ \E c \in Callers : ClientCall(c)
    \/ \E c \in Callers : ClientReturn(c)

(***************************************************************************)
(* The ORDERS stream and the maestro's consumer                            *)
(***************************************************************************)
WaitingToCook == "waiting_to_cook"
WaitingDelivery == "waiting_delivery"

\* Room in the stream for every message the bounds allow.
StreamCap == NumOrders + MaxMalformed + MaxDeliveryPubs
Positions == 1..StreamCap

\* json.Marshal(order) published under <subject>.<stage>.<order_id>.
OrderMsg(stage, o, st) == [subj |-> stage, id |-> o, status |-> st, json |-> TRUE]
\* A payload json.Unmarshal rejects.
GarbageMsg == [subj |-> WaitingToCook, id |-> 0, status |-> "", json |-> FALSE]

\* A consumer filtering on "<subject>.>", as the gateway's observers do.
MatchesFilter_EveryStage(msg) == msg.subj \in {WaitingToCook, WaitingDelivery}

\* FilterSubject "<subject>.waiting_to_cook.*" of the maestro's consumer.
MatchesFilter(msg) == msg.subj = WaitingToCook

Min(a, b) == IF a < b THEN a ELSE b

RECURSIVE SortedSeq(_)
SortedSeq(S) ==
    IF S = {} THEN <<>>
    ELSE LET lo == CHOOSE x \in S : \A y \in S : x <= y
         IN <<lo>> \o SortedSeq(S \ {lo})

Take(s, n) == SubSeq(s, 1, Min(n, Len(s)))
Range(s) == {s[i] : i \in 1..Len(s)}

QueueInit ==
    /\ stream = <<>>
    /\ nextDeliver = 0
    /\ redeliverQ = <<>>
    /\ ackPending = {}
    /\ acked = {}
    /\ submitted = {}
    /\ malformed = 0
    /\ request = [o \in OrderIds |-> <<>>]
    /\ response = [o \in OrderIds |-> 0]

\* NATSOrderPubSubber.PubOrder: the order goes to <subject>.waiting_to_cook.<id>.
NatsPubOrder(o) ==
    stream' = Append(stream, OrderMsg(WaitingToCook, o, "pending"))

\* Request bodies: one that c.Bind rejects, and bound ones with each attribute
\* either as the validate tags want it or not.
Requests ==
    [bindable : {TRUE}, size : {"small", "huge"}, destination : {"", "box"},
     username : {"", "max"}, toppings : {<<>>, <<"">>, <<"cheese">>}]
    \cup {[bindable |-> FALSE, size |-> "", destination |-> "", username |-> "",
           toppings |-> <<>>]}

\* A request every validate tag accepts.
GoodRequest ==
    [bindable |-> TRUE, size |-> "small", destination |-> "box", username |-> "max",
     toppings |-> <<"cheese">>]

\* The validate tags of NewPizzaOrderRequest.
SatisfiesTags(req) ==
    /\ req.size \in {"small", "medium", "large"}
    /\ \A i \in 1..Len(req.toppings) : req.toppings[i] # ""
    /\ req.destination # ""
    /\ req.username # ""

StatusOK == 200
StatusBadRequest == 400

\* OrderNewPizza, except that the identifier may be one already given out.
OrderNewPizza_ReusesIdentifier(o, req) ==
    /\ submitted' = submitted \cup {o}
    /\ request' = [request EXCEPT ![o] = <<req>>]
    /\ IF ~req.bindable
         THEN /\ response' = [response EXCEPT ![o] = StatusBadRequest]
              /\ UNCHANGED stream
         ELSE /\ response' = [response EXCEPT ![o] = StatusOK]
              /\ \/ /\ Len(stream) < StreamCap
                    /\ NatsPubOrder(o)
                 \/ UNCHANGED stream
    /\ UNCHANGED <<nextDeliver, redeliverQ, ackPending, acked, malformed>>
    /\ UNCHANGED <<panVars, maestroVars>>
    /\ UNCHANGED <<gwVars, procVars>>

\* The gateway process is alive (the Go runtime ends it with "fatal error:
\* concurrent map writes" when it detects two goroutines inside one map).
GatewayUp == \A h \in DOMAIN nPc : nPc[h] # "crashed"

\* OrderNewPizza: c.Bind (400 when it fails), then a fresh identifier, status
\* pending, PubOrder, and 200 whatever PubOrder returned. The handler never runs
\* the validate tags.
OrderNewPizza(o, req) ==
    /\ GatewayUp
    /\ o \notin submitted
    /\ \A earlier \in OrderIds : earlier < o => earlier \in submitted
    /\ submitted' = submitted \cup {o}
    /\ request' = [request EXCEPT ![o] = <<req>>]
    /\ IF ~req.bindable
         THEN /\ response' = [response EXCEPT ![o] = StatusBadRequest]
              /\ UNCHANGED stream
         ELSE /\ response' = [response EXCEPT ![o] = StatusOK]
              /\ \/ NatsPubOrder(o)
                 \/ UNCHANGED stream
    /\ UNCHANGED <<nextDeliver, redeliverQ, ackPending, acked, malformed>>
    /\ UNCHANGED <<panVars, maestroVars>>
    /\ UNCHANGED <<gwVars, procVars>>

\* Some other publisher puts an unparseable payload on the consumer's subject.
PublishMalformed ==
    /\ malformed < MaxMalformed
    /\ malformed' = malformed + 1
    /\ stream' = Append(stream, GarbageMsg)
    /\ UNCHANGED <<nextDeliver, redeliverQ, ackPending, acked, submitted>>
    /\ UNCHANGED <<panVars, maestroVars>>
    /\ UNCHANGED <<gwVars, procVars>>
    /\ UNCHANGED ingressVars

\* AckExplicitPolicy: a delivered message that is not acknowledged within the
\* ack wait is queued for redelivery.
Redeliver(p) ==
    /\ p \in ackPending
    /\ p \notin Range(redeliverQ)
    /\ p # cur
    /\ p \notin Range(batch)
    /\ redeliverQ' = Append(redeliverQ, p)
    /\ UNCHANGED <<stream, nextDeliver, ackPending, acked, submitted, malformed>>
    /\ UNCHANGED <<panVars, maestroVars>>
    /\ UNCHANGED <<gwVars, procVars>>
    /\ UNCHANGED ingressVars

(***************************************************************************)
(* maestro                                                                 *)
(***************************************************************************)
MStatusProcessing(o) == <<"processing order", o>>

\* retry.WithCodes(codes.Unavailable, codes.ResourceExhausted)
RetryCodes == {"Unavailable", "ResourceExhausted"}
\* retry.WithMax(cfg.Retries): the interceptor's loop makes max attempts, one
\* when max is 0.
MaxAttempts == IF Retries = 0 THEN 1 ELSE Retries

MaestroInit ==
    /\ mPc = "fetch"
    /\ batch = <<>>
    /\ cur = 0
    /\ attempts = 0
    /\ mStatus = <<"">>
    /\ isSmoking = FALSE
    /\ isLunching = FALSE
    /\ hasTicketed = FALSE
    /\ lunchWaiters = 1
    /\ oversmoked = FALSE
    /\ doughOk = FALSE
    /\ pubOk = FALSE
    /\ exhausted = {}

\* The trail of the order of the message being processed, after its delivery
\* ended `how` ("dough": requestDough returned the dough). Tracking stops when the
\* deliveries leave the pattern "RejectionsBeforeDough rejections, then dough".
Recorded(how) ==
    LET o == stream[cur].id
    IN IF o \notin OrderIds \/ ~trail[o].tracked \/ how = "done"
         THEN trail
         ELSE IF how = "ResourceExhausted"
                THEN IF trail[o].doughs = 0 /\ trail[o].rejected < RejectionsBeforeDough
                       THEN [trail EXCEPT ![o].rejected = @ + 1]
                       ELSE [trail EXCEPT ![o].tracked = FALSE]
         ELSE IF how = "dough"
                THEN IF trail[o].rejected = RejectionsBeforeDough
                       THEN [trail EXCEPT ![o].doughs = Min(@ + 1, 2)]
                       ELSE [trail EXCEPT ![o].tracked = FALSE]
         ELSE IF how \in {"publishFailed", "ackFailed"}
                THEN [trail EXCEPT ![o].otherFail = TRUE]
         ELSE [trail EXCEPT ![o].tracked = FALSE]

\* processNewOrder, except that a capacity-exhausted dough request goes on to the
\* acknowledgement instead of returning.
ReturnToLoop_AcksExhausted(how) ==
    /\ trail' = Recorded(how)
    /\ exhausted' = IF how = "ResourceExhausted" THEN exhausted \cup {cur}
                                                  ELSE exhausted
    /\ cur' = IF how = "ResourceExhausted" THEN cur ELSE 0
    /\ attempts' = 0
    /\ doughOk' = FALSE
    /\ pubOk' = FALSE
    /\ mPc' = IF how = "ResourceExhausted" THEN "ack" ELSE "next"

\* processNewOrder, except that a failed item ends the turn: startTurn leaves its
\* loop instead of going on with the next message.
ReturnToLoop_FailureEndsTurn(how) ==
    /\ trail' = Recorded(how)
    /\ exhausted' = IF how = "ResourceExhausted" THEN exhausted \cup {cur}
                                                  ELSE exhausted
    /\ cur' = 0
    /\ attempts' = 0
    /\ doughOk' = FALSE
    /\ pubOk' = FALSE
    /\ mPc' = IF how = "done" THEN "next" ELSE "returned"

\* processNewOrder returns: startTurn goes on with the next message.
ReturnToLoop(how) ==
    /\ trail' = Recorded(how)
    /\ exhausted' = IF how = "ResourceExhausted" THEN exhausted \cup {cur}
                                                  ELSE exhausted
    /\ cur' = 0
    /\ attempts' = 0
    /\ doughOk' = FALSE
    /\ pubOk' = FALSE
    /\ mPc' = "next"

\* processNewOrder goes on to its next statement.
StayInOrder == UNCHANGED <<cur, exhausted, trail>>

\* getNewBatchMessages: consumer.Fetch(OrderBatchSize, FetchMaxWait). Redeliveries
\* come first, then messages not yet delivered, in stream order. With the
\* connection down and the client reconnecting, the request waits FetchMaxWait
\* and the batch comes back empty. The function returns nil for its error
\* whatever Fetch returned, so startTurn's "continue" on error is never taken.
GetNewBatchMessages ==
    /\ mPc = "fetch"
    /\ IF natsConnected
         THEN LET again == Take(redeliverQ, OrderBatchSize)
              fresh == Take(SortedSeq({p \in (nextDeliver + 1)..Len(stream) :
                                          MatchesFilter(stream[p])}),
                            OrderBatchSize - Len(again))
              got == again \o fresh
          IN /\ batch' = got
             /\ redeliverQ' = SubSeq(redeliverQ, Len(again) + 1, Len(redeliverQ))
             /\ nextDeliver' = IF Len(fresh) = OrderBatchSize - Len(again) /\ fresh # <<>>
                                 THEN fresh[Len(fresh)]
                                 ELSE Len(stream)
             /\ ackPending' = ackPending \cup Range(got)
             /\ mPc' = "next"
         ELSE /\ batch' = <<>>
              /\ mPc' = "next"
              /\ UNCHANGED <<redeliverQ, nextDeliver, ackPending>>
    /\ UNCHANGED <<stream, acked, submitted, malformed>>
    /\ UNCHANGED <<cur, attempts, mStatus, isSmoking, isLunching, hasTicketed,
                   lunchWaiters, oversmoked, doughOk, pubOk, exhausted>>
    /\ UNCHANGED panVars
    /\ UNCHANGED <<gwVars, procVars>>
    /\ UNCHANGED ingressVars
    /\ UNCHANGED trail

NextMessage_LunchesMidBatch ==
    /\ mPc = "next"
    /\ IF batch = <<>> \/ hasTicketed
         THEN /\ mPc' = "lunchCheck"
              /\ UNCHANGED <<batch, cur, exhausted>>
         ELSE /\ batch' = Tail(batch)
              /\ \/ UNCHANGED <<mPc, cur, exhausted>>
                 \/ /\ cur' = Head(batch)
                    /\ exhausted' = exhausted \ {Head(batch)}
                    /\ mPc' = "unmarshal"
    /\ UNCHANGED <<attempts, mStatus, isSmoking, isLunching, hasTicketed,
                   lunchWaiters, oversmoked, doughOk, pubOk>>
    /\ UNCHANGED <<panVars, queueVars>>
    /\ UNCHANGED <<gwVars, procVars>>
    /\ UNCHANGED trail

\* startTurn, for order := range orders: InProgress(), then processNewOrder.
NextMessage ==
    /\ mPc = "next"
    /\ IF batch = <<>>
         THEN /\ mPc' = "lunchCheck"
              /\ UNCHANGED <<batch, cur, exhausted>>
         ELSE /\ batch' = Tail(batch)
              /\ \/ UNCHANGED <<mPc, cur, exhausted>>
                 \/ /\ cur' = Head(batch)
                    /\ exhausted' = exhausted \ {Head(batch)}
                    /\ mPc' = "unmarshal"
    /\ UNCHANGED <<attempts, mStatus, isSmoking, isLunching, hasTicketed,
                   lunchWaiters, oversmoked, doughOk, pubOk>>
    /\ UNCHANGED <<panVars, queueVars>>
    /\ UNCHANGED <<gwVars, procVars>>
    /\ UNCHANGED trail

\* processNewOrder up to m.status = "processing order <id>".
Unmarshal ==
    /\ mPc = "unmarshal"
    /\ IF ~stream[cur].json
         THEN /\ ReturnToLoop("malformed")
              /\ UNCHANGED mStatus
         ELSE /\ mStatus' = MStatusProcessing(stream[cur].id)
              /\ mPc' = "requestDough"
              /\ StayInOrder
              /\ UNCHANGED <<attempts, doughOk, pubOk>>
    /\ UNCHANGED <<batch, isSmoking, isLunching, hasTicketed, lunchWaiters,
                   oversmoked>>
    /\ UNCHANGED <<panVars, queueVars>>
    /\ UNCHANGED <<gwVars, procVars>>

\* What the retry interceptor does with a failed attempt: another attempt after
\* the backoff while the code is retryable and attempts are left, else the error
\* goes up through requestDough to processNewOrder, which returns.
AfterFailedAttempt(code) ==
    IF code \in RetryCodes /\ attempts < MaxAttempts
      THEN /\ mPc' = "requestDough"
           /\ StayInOrder
           /\ UNCHANGED <<attempts, doughOk, pubOk>>
      ELSE ReturnToLoop(code)

\* requestDough: one attempt of panettiereClient.MakeDough leaves the client; or
\* the transport fails it before it reaches the panettiere.
DoughAttempt ==
    /\ mPc = "requestDough"
    /\ callPc[MaestroCaller] = "idle"
    /\ attempts' = attempts + 1
    /\ \/ /\ callPc' = [callPc EXCEPT ![MaestroCaller] = "check"]
          /\ callOrder' = [callOrder EXCEPT ![MaestroCaller] = stream[cur].id]
          /\ callResult' = [callResult EXCEPT ![MaestroCaller] = "none"]
          /\ mPc' = "awaitDough"
       \/ /\ UNCHANGED <<callPc, callOrder, callResult>>
          /\ mPc' = "attemptFailed"
    /\ StayInOrder
    /\ UNCHANGED <<batch, mStatus, isSmoking, isLunching, hasTicketed,
                   lunchWaiters, oversmoked, doughOk, pubOk>>
    /\ UNCHANGED <<isSleeping, isWorkingOnDough, shouldSleep, status, wakeTimers,
                   oversleeping, owed>>
    /\ UNCHANGED queueVars
    /\ UNCHANGED <<gwVars, procVars>>

\* The attempt that never reached the panettiere ends Unavailable (retryable) or
\* DeadlineExceeded (not retryable).
TransportError ==
    /\ mPc = "attemptFailed"
    /\ \E code \in {"Unavailable", "DeadlineExceeded"} : AfterFailedAttempt(code)
    /\ UNCHANGED <<batch, mStatus, isSmoking, isLunching, hasTicketed,
                   lunchWaiters, oversmoked>>
    /\ UNCHANGED <<panVars, queueVars>>
    /\ UNCHANGED <<gwVars, procVars>>

\* The panettiere's answer to one attempt reaches the interceptor.
DoughReturn ==
    /\ mPc = "awaitDough"
    /\ callPc[MaestroCaller] = "ret"
    /\ callPc' = [callPc EXCEPT ![MaestroCaller] = "idle"]
    /\ IF callResult[MaestroCaller] = "OK"
         THEN /\ doughOk' = TRUE
              /\ trail' = Recorded("dough")
              /\ mPc' = "publish"
              /\ UNCHANGED <<cur, exhausted>>
              /\ UNCHANGED <<attempts, pubOk>>
         ELSE AfterFailedAttempt(callResult[MaestroCaller])
    /\ UNCHANGED <<batch, mStatus, isSmoking, isLunching, hasTicketed,
                   lunchWaiters, oversmoked>>
    /\ UNCHANGED <<isSleeping, isWorkingOnDough, shouldSleep, status, wakeTimers,
                   oversleeping, callOrder, callResult, owed>>
    /\ UNCHANGED queueVars
    /\ UNCHANGED <<gwVars, procVars>>

DeliveryPubs == Cardinality({p \in 1..Len(stream) : stream[p].subj = WaitingDelivery})

\* sendToDeliveryQueue, except that processNewOrder goes on to the acknowledgement
\* when the publish failed.
SendToDeliveryQueue_IgnoresPublishError ==
    /\ mPc = "publish"
    /\ \/ /\ DeliveryPubs < MaxDeliveryPubs
          /\ stream' = Append(stream,
                 OrderMsg(WaitingDelivery, stream[cur].id, "waiting_delivery"))
          /\ pubOk' = TRUE
       \/ UNCHANGED <<stream, pubOk>>
    /\ mPc' = "ack"
    /\ StayInOrder
    /\ UNCHANGED <<attempts, doughOk>>
    /\ UNCHANGED <<nextDeliver, redeliverQ, ackPending, acked, submitted, malformed>>
    /\ UNCHANGED <<batch, mStatus, isSmoking, isLunching, hasTicketed,
                   lunchWaiters, oversmoked>>
    /\ UNCHANGED panVars
    /\ UNCHANGED <<gwVars, procVars>>
    /\ UNCHANGED ingressVars

\* sendToDeliveryQueue: status waiting_delivery, PublishMsg on
\* <subject>.waiting_delivery.<id>; processNewOrder returns when it fails.
SendToDeliveryQueue ==
    /\ mPc = "publish"
    /\ \/ /\ DeliveryPubs < MaxDeliveryPubs
          /\ stream' = Append(stream,
                 OrderMsg(WaitingDelivery, stream[cur].id, "waiting_delivery"))
          /\ pubOk' = TRUE
          /\ mPc' = "ack"
          /\ StayInOrder
          /\ UNCHANGED <<attempts, doughOk>>
       \/ /\ ReturnToLoop("publishFailed")
          /\ UNCHANGED stream
    /\ UNCHANGED <<nextDeliver, redeliverQ, ackPending, acked, submitted, malformed>>
    /\ UNCHANGED <<batch, mStatus, isSmoking, isLunching, hasTicketed,
                   lunchWaiters, oversmoked>>
    /\ UNCHANGED panVars
    /\ UNCHANGED <<gwVars, procVars>>
    /\ UNCHANGED ingressVars

\* msg.Ack(), except that an acknowledged message stays pending at the server.
AckMessage_LeavesPending ==
    /\ mPc = "ack"
    /\ \/ /\ acked' = acked \cup {cur}
          /\ mPc' = "smoke"
          /\ StayInOrder
          /\ UNCHANGED <<attempts, doughOk, pubOk>>
       \/ /\ ReturnToLoop("ackFailed")
          /\ UNCHANGED acked
    /\ UNCHANGED <<stream, nextDeliver, redeliverQ, submitted, malformed, ackPending>>
    /\ UNCHANGED <<batch, mStatus, isSmoking, isLunching, hasTicketed,
                   lunchWaiters, oversmoked>>
    /\ UNCHANGED panVars
    /\ UNCHANGED <<gwVars, procVars>>
    /\ UNCHANGED ingressVars

AckMessage_SmokesAfterFailedAck ==
    /\ mPc = "ack"
    /\ \/ /\ acked' = acked \cup {cur}
          /\ ackPending' = ackPending \ {cur}
       \/ UNCHANGED <<acked, ackPending>>
    /\ mPc' = "smoke"
    /\ StayInOrder
    /\ UNCHANGED <<attempts, doughOk, pubOk>>
    /\ UNCHANGED <<stream, nextDeliver, redeliverQ, submitted, malformed>>
    /\ UNCHANGED <<batch, mStatus, isSmoking, isLunching, hasTicketed,
                   lunchWaiters, oversmoked>>
    /\ UNCHANGED panVars
    /\ UNCHANGED <<gwVars, procVars>>
    /\ UNCHANGED ingressVars

\* msg.Ack(): on success the message leaves the consumer's pending set; on failure
\* processNewOrder returns.
AckMessage ==
    /\ mPc = "ack"
    /\ \/ /\ acked' = acked \cup {cur}
          /\ ackPending' = ackPending \ {cur}
          /\ mPc' = "smoke"
          /\ StayInOrder
          /\ UNCHANGED <<attempts, doughOk, pubOk>>
       \/ /\ ReturnToLoop("ackFailed")
          /\ UNCHANGED <<acked, ackPending>>
    /\ UNCHANGED <<stream, nextDeliver, redeliverQ, submitted, malformed>>
    /\ UNCHANGED <<batch, mStatus, isSmoking, isLunching, hasTicketed,
                   lunchWaiters, oversmoked>>
    /\ UNCHANGED panVars
    /\ UNCHANGED <<gwVars, procVars>>
    /\ UNCHANGED ingressVars

\* Settings.SmokingDurationInSeconds (min=1) and Settings.OversmokingFactor (gt=1).
SmokingDurationInSeconds == 2
OversmokingFactor == 2

\* smoke, up to time.Sleep(sleepDuration): the duration is the base one; the
\* oversmoking branch declares a second sleepDuration with := that lives only
\* inside the if block (it is logged and put on the span), so the one handed to
\* time.Sleep never changes.
SmokeStart ==
    /\ mPc = "smoke"
    /\ isSmoking' = TRUE
    /\ mStatus' = <<"smoking">>
    /\ \E drawn \in BOOLEAN : oversmoked' = drawn
    /\ sleepDuration' = SmokingDurationInSeconds
    /\ mPc' = "smoking"
    /\ StayInOrder
    /\ UNCHANGED <<batch, attempts, isLunching, hasTicketed, lunchWaiters,
                   doughOk, pubOk>>
    /\ UNCHANGED <<panVars, queueVars>>
    /\ UNCHANGED <<gwVars, mainPc, unsubVars, healthVars, sideVars, smokeHistogram>>

\* smoke, after the sleep; processNewOrder returns.
SmokeEnd ==
    /\ mPc = "smoking"
    /\ isSmoking' = FALSE
    /\ mStatus' = <<"idle">>
    /\ oversmoked' = FALSE
    /\ smokeHistogram' = sleepDuration
    /\ sleepDuration' = 0
    /\ ReturnToLoop("done")
    /\ UNCHANGED <<batch, isLunching, hasTicketed, lunchWaiters>>
    /\ UNCHANGED <<panVars, queueVars>>
    /\ UNCHANGED <<gwVars, mainPc, unsubVars, healthVars, sideVars>>

\* startTurn after the batch: the next fetch unless the lunch ticker has fired,
\* else lunch up to its time.Sleep.
LunchCheck ==
    /\ mPc = "lunchCheck"
    /\ IF ~hasTicketed
         THEN /\ mPc' = "fetch"
              /\ UNCHANGED <<isLunching, mStatus>>
         ELSE /\ isLunching' = TRUE
              /\ mStatus' = <<"lunching">>
              /\ mPc' = "lunching"
    /\ UNCHANGED <<batch, cur, attempts, isSmoking, hasTicketed, lunchWaiters,
                   oversmoked, doughOk, pubOk, exhausted>>
    /\ UNCHANGED <<panVars, queueVars>>
    /\ UNCHANGED <<gwVars, procVars>>
    /\ UNCHANGED trail

\* lunch after its sleep, then hasTicketed = false, the ticker reset and a new
\* goroutine waiting for the tick.
LunchEnd ==
    /\ mPc = "lunching"
    /\ isLunching' = FALSE
    /\ mStatus' = <<"idle">>
    /\ hasTicketed' = FALSE
    /\ lunchWaiters' = lunchWaiters + 1
    /\ mPc' = "fetch"
    /\ UNCHANGED <<batch, cur, attempts, isSmoking, oversmoked, doughOk, pubOk,
                   exhausted>>
    /\ UNCHANGED <<panVars, queueVars>>
    /\ UNCHANGED <<gwVars, procVars>>
    /\ UNCHANGED trail

LunchTick_WaiterKeepsWaiting ==
    /\ lunchWaiters > 0
    /\ hasTicketed' = TRUE
    /\ UNCHANGED <<mPc, batch, cur, attempts, mStatus, isSmoking, isLunching,
                   lunchWaiters, oversmoked, doughOk, pubOk, exhausted>>
    /\ UNCHANGED <<panVars, queueVars>>
    /\ UNCHANGED <<gwVars, procVars>>
    /\ UNCHANGED trail

\* A goroutine blocked on <-lunchTicker.C receives the tick.
LunchTick ==
    /\ lunchWaiters > 0
    /\ lunchWaiters' = lunchWaiters - 1
    /\ hasTicketed' = TRUE
    /\ UNCHANGED <<mPc, batch, cur, attempts, mStatus, isSmoking, isLunching,
                   oversmoked, doughOk, pubOk, exhausted>>
    /\ UNCHANGED <<panVars, queueVars>>
    /\ UNCHANGED <<gwVars, procVars>>
    /\ UNCHANGED trail

MaestroLoop ==
    \/ GetNewBatchMessages
    \/ NextMessage
    \/ Unmarshal
    \/ DoughAttempt
    \/ TransportError
    \/ DoughReturn
    \/ SendToDeliveryQueue
    \/ AckMessage
    \/ SmokeStart
    \/ SmokeEnd
    \/ LunchCheck
    \/ LunchEnd

QueueEnv ==
    \/ \E o \in OrderIds : OrderNewPizza(o, GoodRequest)
    \/ PublishMalformed
    \/ \E p \in Positions : Redeliver(p)

(***************************************************************************)
(* paddock-gateway: the in-process broadcaster and its SSE handlers         *)
(***************************************************************************)
Handlers == 1..NumHandlers
Events == 1..MaxEvents

ChanInit ==
    /\ liveEventSubscribers = {}
    /\ mu = 0
    /\ hPc = [h \in Handlers |-> "none"]
    /\ hCancelled = [h \in Handlers |-> FALSE]
    /\ hEvent = [h \in Handlers |-> 0]
    /\ hReceived = [h \in Handlers |-> {}]
    /\ pubPc = [e \in Events |-> "idle"]
    /\ pubRemaining = [e \in Events |-> {}]
    /\ pubTarget = [e \in Events |-> 0]

\* GetLiveOrdersSSE up to its loop: SubLiveOrders makes the channel and registers
\* it under g.mu.
SubLiveOrders(h) ==
    /\ hPc[h] = "none"
    /\ mu = 0
    /\ liveEventSubscribers' = liveEventSubscribers \cup {h}
    /\ hPc' = [hPc EXCEPT ![h] = "select"]
    /\ UNCHANGED <<mu, hCancelled, hEvent, hReceived, pubPc, pubRemaining, pubTarget>>
    /\ UNCHANGED <<panVars, queueVars, maestroVars, natsVars, procVars>>

\* The observer's client goes away: the request context is cancelled.
ClientDisconnect(h) ==
    /\ hPc[h] # "none"
    /\ hPc[h] # "closed"
    /\ ~hCancelled[h]
    /\ hCancelled' = [hCancelled EXCEPT ![h] = TRUE]
    /\ UNCHANGED <<liveEventSubscribers, mu, hPc, hEvent, hReceived, pubPc,
                   pubRemaining, pubTarget>>
    /\ UNCHANGED <<panVars, queueVars, maestroVars, natsVars, procVars>>

\* GetLiveOrdersSSE, case <-notify: the handler leaves its loop to unsubscribe.
HandlerNotified(h) ==
    /\ hPc[h] = "select"
    /\ hCancelled[h]
    /\ hPc' = [hPc EXCEPT ![h] = "unsub"]
    /\ UNCHANGED <<liveEventSubscribers, mu, hCancelled, hEvent, hReceived, pubPc,
                   pubRemaining, pubTarget>>
    /\ UNCHANGED <<panVars, queueVars, maestroVars, natsVars, procVars>>

\* delete(g.liveEventSubscribers, flusher): removing a key the map does not hold
\* changes nothing.
Deleted_ForgetsTheOthers(subs, h) == IF h \in subs THEN subs \ {h} ELSE {}

Deleted(subs, h) == subs \ {h}

\* UnsubLiveOrders: delete under g.mu; the handler returns.
UnsubLiveOrders(h) ==
    /\ hPc[h] = "unsub"
    /\ mu = 0
    /\ liveEventSubscribers' = Deleted(liveEventSubscribers, h)
    /\ hPc' = [hPc EXCEPT ![h] = "closed"]
    /\ UNCHANGED <<mu, hCancelled, hEvent, hReceived, pubPc, pubRemaining, pubTarget>>
    /\ UNCHANGED <<panVars, queueVars, maestroVars, natsVars, procVars>>

PubOrderLock_SendsToEveryHandler(e) ==
    /\ pubPc[e] = "idle"
    /\ mu = 0
    /\ mu' = e
    /\ pubRemaining' = [pubRemaining EXCEPT ![e] = Handlers]
    /\ pubPc' = [pubPc EXCEPT ![e] = "range"]
    /\ UNCHANGED <<liveEventSubscribers, hPc, hCancelled, hEvent, hReceived, pubTarget>>
    /\ UNCHANGED <<panVars, queueVars, maestroVars, natsVars, procVars>>

\* GoChannelOrderPubSubber.PubOrder, g.mu.Lock(): the range loop will visit the
\* subscribers registered now (nobody can change the map while the lock is held).
PubOrderLock(e) ==
    /\ pubPc[e] = "idle"
    /\ mu = 0
    /\ mu' = e
    /\ pubRemaining' = [pubRemaining EXCEPT ![e] = liveEventSubscribers]
    /\ pubPc' = [pubPc EXCEPT ![e] = "range"]
    /\ UNCHANGED <<liveEventSubscribers, hPc, hCancelled, hEvent, hReceived, pubTarget>>
    /\ UNCHANGED <<panVars, queueVars, maestroVars, natsVars, procVars>>

\* The range loop reaches a subscriber (in any order) and starts subChan <- order.
PubOrderNext(e) ==
    /\ pubPc[e] = "range"
    /\ \E h \in pubRemaining[e] :
         /\ pubTarget' = [pubTarget EXCEPT ![e] = h]
         /\ pubRemaining' = [pubRemaining EXCEPT ![e] = @ \ {h}]
    /\ pubPc' = [pubPc EXCEPT ![e] = "send"]
    /\ UNCHANGED <<liveEventSubscribers, mu, hPc, hCancelled, hEvent, hReceived>>
    /\ UNCHANGED <<panVars, queueVars, maestroVars, natsVars, procVars>>

\* The unbuffered channel hands the order over: subChan <- order in PubOrder meets
\* case resp := <-ch in the handler.
ChannelHandOver(e, h) ==
    /\ pubPc[e] = "send"
    /\ pubTarget[e] = h
    /\ hPc[h] = "select"
    /\ hEvent' = [hEvent EXCEPT ![h] = e]
    /\ hPc' = [hPc EXCEPT ![h] = "write"]
    /\ pubTarget' = [pubTarget EXCEPT ![e] = 0]
    /\ pubPc' = [pubPc EXCEPT ![e] = "range"]
    /\ UNCHANGED <<liveEventSubscribers, mu, hCancelled, hReceived, pubRemaining>>
    /\ UNCHANGED <<panVars, queueVars, maestroVars, natsVars, procVars>>

\* PubOrder after the loop: the deferred g.mu.Unlock(), return nil.
PubOrderUnlock(e) ==
    /\ pubPc[e] = "range"
    /\ pubRemaining[e] = {}
    /\ mu' = 0
    /\ pubPc' = [pubPc EXCEPT ![e] = "done"]
    /\ UNCHANGED <<liveEventSubscribers, hPc, hCancelled, hEvent, hReceived,
                   pubRemaining, pubTarget>>
    /\ UNCHANGED <<panVars, queueVars, maestroVars, natsVars, procVars>>

\* GetLiveOrdersSSE writes the event: on success flush and loop, on failure
\* UnsubLiveOrders and return the error.
HandlerWrite(h) ==
    /\ hPc[h] = "write"
    /\ \/ /\ ~hCancelled[h]
          /\ hReceived' = [hReceived EXCEPT ![h] = @ \cup {hEvent[h]}]
          /\ hPc' = [hPc EXCEPT ![h] = "select"]
       \/ /\ hPc' = [hPc EXCEPT ![h] = "unsub"]
          /\ UNCHANGED hReceived
    /\ hEvent' = [hEvent EXCEPT ![h] = 0]
    /\ UNCHANGED <<liveEventSubscribers, mu, hCancelled, pubPc, pubRemaining, pubTarget>>
    /\ UNCHANGED <<panVars, queueVars, maestroVars, natsVars, procVars>>

ChanNext ==
    \/ \E h \in Handlers : SubLiveOrders(h)
    \/ \E h \in Handlers : ClientDisconnect(h)
    \/ \E h \in Handlers : HandlerNotified(h)
    \/ \E h \in Handlers : UnsubLiveOrders(h)
    \/ \E h \in Handlers : HandlerWrite(h)
    \/ \E e \in Events : PubOrderLock(e)
    \/ \E e \in Events : PubOrderNext(e)
    \/ \E e \in Events : PubOrderUnlock(e)
    \/ \E e \in Events, h \in Handlers : ChannelHandOver(e, h)

(***************************************************************************)
(* paddock-gateway: observers on the ORDERS stream                          *)
(***************************************************************************)
NatsInit ==
    /\ nSubs = {}
    /\ nPc = [h \in Handlers |-> "none"]
    /\ nCursor = [h \in Handlers |-> 0]
    /\ nEvent = [h \in Handlers |-> 0]
    /\ nReceived = [h \in Handlers |-> {}]
    /\ nRegLen = [h \in Handlers |-> 0]

\* ConsumerConfig{FilterSubject, AckPolicy} names no DeliverPolicy: the zero value,
\* DeliverAllPolicy, starts the consumer at the first message of the stream.
DeliverAllStart == 0

\* The handlers that are inside an access to the n.subs map: NATSOrderPubSubber
\* has no mutex, so nothing keeps a second handler out.
InMapAccess == {h \in Handlers : nPc[h] \in {"storing", "deleting"}}

\* The runtime's fatal error: every handler of the process is gone.
GatewayCrash ==
    /\ nPc' = [h \in Handlers |-> "crashed"]
    /\ nSubs' = {}

\* NATSOrderPubSubber.SubLiveOrders: a new consumer on <subject>.> and its Consume
\* callback; the handler then enters the unguarded write n.subs[flusher] = cons.
NatsSubLiveOrders(h) ==
    /\ nPc[h] = "none"
    /\ nCursor' = [nCursor EXCEPT ![h] = DeliverAllStart]
    /\ nRegLen' = [nRegLen EXCEPT ![h] = Len(stream)]
    /\ nPc' = [nPc EXCEPT ![h] = "storing"]
    /\ UNCHANGED <<nSubs, nEvent, nReceived>>
    /\ UNCHANGED <<panVars, queueVars, maestroVars, chanVars, procVars>>

\* The write n.subs[flusher] = cons completes. Alone in the map it stores the
\* entry; overlapping another handler's access it is a data race: the entry is
\* stored, or lost, or the runtime ends the process.
NatsSubStore(h) ==
    /\ nPc[h] = "storing"
    /\ IF InMapAccess = {h}
         THEN /\ nSubs' = nSubs \cup {h}
              /\ nPc' = [nPc EXCEPT ![h] = "select"]
         ELSE \/ /\ nSubs' \in {nSubs \cup {h}, nSubs}
                 /\ nPc' = [nPc EXCEPT ![h] = "select"]
              \/ GatewayCrash
    /\ UNCHANGED <<nCursor, nEvent, nReceived, nRegLen>>
    /\ UNCHANGED <<panVars, queueVars, maestroVars, chanVars, procVars>>

\* The Consume callback on the consumer's next message: a payload that does not
\* unmarshal is dropped, an order goes to orderCh (unbuffered: channelSize is never
\* set), where the handler's select takes it.
NatsConsume(h) ==
    /\ nPc[h] \in {"storing", "select", "write", "deleting"}
    /\ nCursor[h] < Len(stream)
    /\ LET p == nCursor[h] + 1
       IN IF ~stream[p].json
            THEN UNCHANGED <<nPc, nEvent>>
            ELSE /\ nPc[h] = "select"
                 /\ nPc' = [nPc EXCEPT ![h] = "write"]
                 /\ nEvent' = [nEvent EXCEPT ![h] = p]
    /\ nCursor' = [nCursor EXCEPT ![h] = @ + 1]
    /\ UNCHANGED <<nSubs, nReceived, nRegLen>>
    /\ UNCHANGED <<panVars, queueVars, maestroVars, chanVars, procVars>>

\* GetLiveOrdersSSE writes the event to the observer: on success it loops, on
\* failure it calls UnsubLiveOrders and returns.
NatsHandlerWrite(h) ==
    /\ nPc[h] = "write"
    /\ \/ /\ nReceived' = [nReceived EXCEPT ![h] = @ \cup {nEvent[h]}]
          /\ nPc' = [nPc EXCEPT ![h] = "select"]
       \/ /\ nPc' = [nPc EXCEPT ![h] = "deleting"]
          /\ UNCHANGED nReceived
    /\ nEvent' = [nEvent EXCEPT ![h] = 0]
    /\ UNCHANGED <<nSubs, nCursor, nRegLen>>
    /\ UNCHANGED <<panVars, queueVars, maestroVars, chanVars, procVars>>

\* GetLiveOrdersSSE, case <-notify: the handler calls UnsubLiveOrders and enters
\* its unguarded lookup and delete of n.subs.
NatsUnsubLiveOrders(h) ==
    /\ nPc[h] = "select"
    /\ nPc' = [nPc EXCEPT ![h] = "deleting"]
    /\ UNCHANGED <<nSubs, nCursor, nEvent, nReceived, nRegLen>>
    /\ UNCHANGED <<panVars, queueVars, maestroVars, chanVars, procVars>>

\* What UnsubLiveOrders leaves in the map: a handle that is not registered is
\* reported and nothing is touched, a registered one is stopped and deleted.
NatsDeleted(subs, h) == IF h \notin subs THEN subs ELSE subs \ {h}

\* UnsubLiveOrders completes: cons, ok := n.subs[flusher]; cons.Stop();
\* delete(n.subs, flusher). Overlapping another handler's access it is a data race.
NatsUnsubDelete(h) ==
    /\ nPc[h] = "deleting"
    /\ IF InMapAccess = {h}
         THEN /\ nSubs' = NatsDeleted(nSubs, h)
              /\ nPc' = [nPc EXCEPT ![h] = "closed"]
         ELSE \/ /\ nSubs' \in {NatsDeleted(nSubs, h), nSubs}
                 /\ nPc' = [nPc EXCEPT ![h] = "closed"]
              \/ GatewayCrash
    /\ UNCHANGED <<nCursor, nEvent, nReceived, nRegLen>>
    /\ UNCHANGED <<panVars, queueVars, maestroVars, chanVars, procVars>>

NatsObservers ==
    \/ \E h \in Handlers : NatsSubLiveOrders(h)
    \/ \E h \in Handlers : NatsSubStore(h)
    \/ \E h \in Handlers : NatsConsume(h)
    \/ \E h \in Handlers : NatsHandlerWrite(h)
    \/ \E h \in Handlers : NatsUnsubLiveOrders(h)
    \/ \E h \in Handlers : NatsUnsubDelete(h)

\* No order's deliveries are tracked / every order's deliveries are tracked.
Untracked ==
    [o \in OrderIds |-> [tracked |-> FALSE, rejected |-> 0, doughs |-> 0,
                         otherFail |-> FALSE]]
Tracked ==
    [o \in OrderIds |-> [tracked |-> TRUE, rejected |-> 0, doughs |-> 0,
                         otherFail |-> FALSE]]

\* The health goroutines: the panettiere's, the maestro's (src/maestro/main.go) and
\* the el-maestro main of src/unnamed/part_000.
PanettiereLoop == "panettiere"
MaestroMainLoop == "maestro"
ElMaestroLoop == "el-maestro"
MaestroLoops == {MaestroMainLoop, ElMaestroLoop}
HealthLoops == {PanettiereLoop} \cup MaestroLoops

Serving == "SERVING"
NotServing == "NOT_SERVING"

\* health.NewServer() reports SERVING for the "" service, status starts as
\* SERVING, and main only gets this far with NATS connected.
HealthInit ==
    /\ natsConnected = TRUE
    /\ hlPc = [v \in HealthLoops |-> "publish"]
    /\ hlStatus = [v \in HealthLoops |-> Serving]
    /\ hlServing = [v \in HealthLoops |-> Serving]
    /\ hlObserved = [v \in HealthLoops |-> "none"]

\* The websocket gateway before any connection or order.
WsInit ==
    /\ wsMu = 0
    /\ wsSubs = {}
    /\ wsOpen = {}
    /\ wsPc = [h \in Handlers |-> "none"]
    /\ wsEvent = [h \in Handlers |-> 0]
    /\ wsReceived = [h \in Handlers |-> {}]
    /\ wsOrderPc = [e \in Events |-> "idle"]
    /\ wsRemaining = [e \in Events |-> {}]
    /\ wsTarget = [e \in Events |-> 0]

\* LoadConfig has not run.
NoCors == [origins |-> <<>>, methods |-> <<>>, headers |-> <<>>]

ConfigInit ==
    /\ cors = NoCors
    /\ corsResult = "none"

\* No smoke yet.
SmokeInit ==
    /\ sleepDuration = 0
    /\ smokeHistogram = 0

\* Nobody has called UnsubLiveOrders from outside a handler yet.
UnsubInit ==
    unsubReturns = [i \in {"chan", "nats"} \X Handlers |-> <<>>]

Init ==
    /\ PanInit /\ QueueInit /\ MaestroInit /\ ChanInit /\ NatsInit /\ UnsubInit /\ SmokeInit
    /\ HealthInit /\ ConfigInit /\ WsInit
    /\ trail = Untracked
    /\ mainPc = "running"

\* The same start, with the deliveries of every order tracked.
InitTracked ==
    /\ PanInit /\ QueueInit /\ MaestroInit /\ ChanInit /\ NatsInit /\ UnsubInit /\ SmokeInit
    /\ HealthInit /\ ConfigInit /\ WsInit
    /\ trail = Tracked
    /\ mainPc = "running"

PanNext == PanServer \/ PanClients

\* The panettiere serving independent clients.
SpecPanettiere == Init /\ [][PanNext]_vars

MaestroNext == MaestroLoop \/ LunchTick \/ QueueEnv \/ PanServer

\* The maestro with its stream, its consumer and the panettiere it calls.
SpecMaestro == Init /\ [][MaestroNext]_vars

\* The maestro under fair scheduling: its loop keeps running, the panettiere
\* serves the calls it has accepted and wakes up, and the server redelivers what
\* is pending.
FairSpecMaestro ==
    /\ SpecMaestro
    /\ WF_vars(MaestroLoop)
    /\ WF_vars(WakeUp)
    /\ \A c \in Callers : WF_vars(MakeDoughCheck(c) \/ MakeDoughMark(c)
                                    \/ MakeDoughRelease(c) \/ CheckAndSleep(c))
    /\ \A p \in Positions : WF_vars(Redeliver(p))

\* The in-process broadcaster with its SSE handlers and publishing requests.
SpecBroadcaster == Init /\ [][ChanNext]_vars

NatsGatewayNext ==
    \/ \E o \in OrderIds, req \in Requests : OrderNewPizza(o, req)
    \/ PublishMalformed
    \/ NatsObservers

\* The gateway publishing to the ORDERS stream and its observers.
SpecNatsGateway == Init /\ [][NatsGatewayNext]_vars

(***************************************************************************)
(* Properties                                                              *)
(***************************************************************************)

\* C1: the panettiere is never working on dough and sleeping at the same time.
C1_NeverWorkingAndSleeping == ~(isWorkingOnDough /\ isSleeping)

\* C2: the maestro reaches msg.Ack(), and a message becomes acknowledged, only for
\* the message being processed, after its dough request succeeded and its order was
\* published to waiting_delivery.<order_id>.
C2_AckOnlyAfterDoughAndPublish ==
    [][/\ (mPc # "ack" /\ mPc' = "ack") =>
            /\ doughOk' /\ pubOk'
            /\ stream'[Len(stream')] =
                   OrderMsg(WaitingDelivery, stream'[cur'].id, "waiting_delivery")
       /\ \A p \in Positions :
            (p \notin acked /\ p \in acked') =>
                /\ p = cur
                /\ doughOk /\ pubOk
                /\ \E q \in 1..Len(stream) :
                      stream[q] = OrderMsg(WaitingDelivery, stream[p].id,
                                           "waiting_delivery")]_vars

C2_Witness == mPc = "smoke" /\ cur \in acked /\ stream[cur].subj = WaitingToCook

\* C3: a message whose dough request ended with ResourceExhausted is not
\* acknowledged and stays pending, and a later fetch delivers it again.
C3_ExhaustedRedelivered ==
    /\ [](\A p \in Positions : p \in exhausted => p \notin acked /\ p \in ackPending)
    /\ \A p \in Positions : (p \in exhausted) ~> (p \in Range(batch))

C3_Witness == \E p \in exhausted : p \in Range(batch) /\ p \notin acked

\* C4: PubOrder is never waiting, with the subscriber set locked, to hand an event
\* to a subscriber whose handler has left its receive loop and is itself waiting
\* to unsubscribe (so PubOrder always gets on to the other subscribers and returns).
C4_StoppedSubscriberDoesNotBlockPubOrder ==
    \A e \in Events :
        ~(pubPc[e] = "send" /\ mu = e /\ hPc[pubTarget[e]] = "unsub")

\* C5: a sleep never starts while a MakeDough call that was working when the
\* ticker fired has not yet finished its release.
C5_SleepWaitsForCallsInProgress ==
    [][(~isSleeping /\ isSleeping') => owed' = {}]_vars

\* C6: when an attempt of requestDough comes back ResourceExhausted, the call ends
\* there: it was the only attempt and the error goes up to processNewOrder.
C6_ResourceExhaustedNotRetried ==
    [][(/\ mPc = "awaitDough"
        /\ callPc[MaestroCaller] = "ret"
        /\ callResult[MaestroCaller] = "ResourceExhausted"
        /\ mPc' # mPc)
          => (mPc' = "next" /\ attempts = 1)]_vars

\* C7: a message whose payload does not parse is acknowledged when the maestro
\* drops it.
C7_MalformedAcknowledged ==
    [][(mPc = "unmarshal" /\ ~stream[cur].json /\ mPc' # mPc) => cur \in acked']_vars

\* C8: no PubOrder call holds the subscriber-set mutex while its channel send
\* waits for a receiver that is not ready to take it.
C8_NoBlockedSendUnderMutex ==
    \A e \in Events :
        ~(mu = e /\ pubPc[e] = "send" /\ hPc[pubTarget[e]] # "select")

\* C9: an observer is never handed an event that was in the stream before it
\* subscribed.
C9_NoReplay ==
    \A h \in Handlers :
        \A p \in nReceived[h] \cup ({nEvent[h]} \ {0}) : p > nRegLen[h]

\* C10: a MakeDough call that finds the panettiere sleeping returns
\* ResourceExhausted and leaves isWorkingOnDough, isSleeping, shouldSleep and
\* status as they were.
C10_RejectedCallHasNoSideEffect ==
    [][\A c \in Callers :
         (callPc[c] = "check" /\ isSleeping /\ callPc'[c] # "check") =>
            /\ callPc'[c] = "ret"
            /\ callResult'[c] = "ResourceExhausted"
            /\ UNCHANGED <<isWorkingOnDough, isSleeping, shouldSleep, status>>]_vars

C10_Witness ==
    \E c \in Callers :
        callPc[c] = "ret" /\ callResult[c] = "ResourceExhausted" /\ isSleeping

\* C11: at most one MakeDough call is in its working section at any moment.
C11_OneDoughAtATime == Cardinality({c \in Callers : callPc[c] = "work"}) <= 1

\* The panettiere under fair scheduling: the wake-up goroutine of a sleep runs
\* once its time.Sleep is over, and accepted calls run to their end.
FairSpecPanettiere ==
    /\ SpecPanettiere
    /\ WF_vars(WakeUp)
    /\ \A c \in Callers : WF_vars(MakeDoughCheck(c) \/ MakeDoughMark(c)
                                    \/ MakeDoughRelease(c) \/ CheckAndSleep(c))

\* C12: whenever the panettiere is sleeping, with or without oversleeping, it is
\* eventually awake again with status idle.
C12_EverySleepEnds ==
    \A drawn \in BOOLEAN :
        (isSleeping /\ oversleeping = drawn) ~> (~isSleeping /\ status = StatusIdle)

C12_Witness ==
    \E c \in Callers :
        /\ callResult[c] = "ResourceExhausted"
        /\ ~isSleeping /\ status = StatusIdle /\ wakeTimers = 0

\* C13: when a sleep is due after work (shouldSleep set by a tick during the work,
\* the call has released and is about to run checkAndSleep), no other MakeDough
\* call is accepted before the panettiere is sleeping.
C13_SleepBeforeNextCallAccepted ==
    [][\A c \in Callers :
         (callPc[c] = "check" /\ callPc'[c] = "mark") =>
            ~(/\ shouldSleep
              /\ ~isWorkingOnDough
              /\ \E d \in Callers \ {c} : callPc[d] = "checkAndSleep")]_vars

\* C14: whatever ends the processing of an item, startTurn goes on with the rest
\* of the batch untouched; every item of a batch is taken by the range loop; and
\* the loop always comes back to the next fetch, also after an empty batch.
C14_LoopSurvivesItemFailure ==
    /\ [][(cur # 0 /\ cur' = 0) => (mPc' = "next" /\ batch' = batch)]_vars
    /\ \A p \in Positions : (p \in Range(batch)) ~> (p \notin Range(batch))
    /\ (mPc = "next" /\ batch = <<>>) ~> (mPc = "fetch")
    /\ []<>(mPc = "fetch")

C14_Witness ==
    \E p \in exhausted :
        /\ mPc = "unmarshal"
        /\ cur # p
        /\ p \notin Range(redeliverQ)

\* C15: a request whose attributes violate the declared constraints is answered
\* with a client error and no order is published for it.
C15_InvalidRequestRejected ==
    \A o \in OrderIds :
        (request[o] # <<>> /\ ~SatisfiesTags(request[o][1])) =>
            /\ response[o] = StatusBadRequest
            /\ \A p \in 1..Len(stream) : stream[p].id # o

\* C16: whenever OrderNewPizza answered success for an order id, an order with
\* that id and status pending is in the stream on waiting_to_cook.<order_id>.
C16_SuccessMeansPublished ==
    \A o \in OrderIds :
        response[o] = StatusOK =>
            \E p \in 1..Len(stream) : stream[p] = OrderMsg(WaitingToCook, o, "pending")

\* The maestro's consumer has delivered the waiting_to_cook message of order o.
Fetched(o) ==
    \E p \in ackPending \cup acked :
        stream[p].subj = WaitingToCook /\ stream[p].json /\ stream[p].id = o

\* C17: every order OrderNewPizza accepted (answered with success) is eventually
\* fetched by the maestro, the first stage of its way to waiting_delivery and the
\* acknowledgement.
C17_AcceptedOrderIsEventuallyFetched ==
    \A o \in OrderIds : (response[o] = StatusOK) ~> Fetched(o)

\* The maestro, its queue and the panettiere, with every order's deliveries
\* tracked from the start.
SpecRedelivery == InitTracked /\ [][MaestroNext]_vars

\* The waiting_to_cook message of order o is acknowledged.
Acknowledged(o) ==
    \E p \in acked : stream[p].subj = WaitingToCook /\ stream[p].id = o

DeliveryPubsOf(o) ==
    Cardinality({p \in 1..Len(stream) :
                    stream[p].subj = WaitingDelivery /\ stream[p].id = o})

\* The deliveries of order o so far: RejectionsBeforeDough ended with
\* ResourceExhausted, then MakeDough returned the dough.
RejectedThenDough(o) ==
    /\ trail[o].tracked
    /\ trail[o].rejected = RejectionsBeforeDough
    /\ trail[o].doughs >= 1

C19_StageMonotonic ==
    \A p, q \in 1..Len(stream) :
        (/\ p < q
         /\ stream[p].json /\ stream[q].json
         /\ stream[p].id = stream[q].id
         /\ stream[p].status = "waiting_delivery") => stream[q].status # "pending"

\* An order republished to waiting_delivery twice, after a redelivery.
C19_Witness ==
    \E p, q \in 1..Len(stream) :
        /\ p < q
        /\ stream[p].id = stream[q].id
        /\ stream[p].status = "waiting_delivery"
        /\ stream[q].status = "waiting_delivery"

(***************************************************************************)
(* The maestro process and its shutdown                                    *)
(***************************************************************************)
\* main's select: the context of signal.NotifyContext is done (SIGINT, SIGTERM),
\* or the gRPC server failed.
ShutdownSignal ==
    /\ mainPc = "running"
    /\ mainPc' = "stopping"
    /\ UNCHANGED <<panVars, queueVars, maestroVars, gwVars>>
    /\ UNCHANGED <<unsubVars, smokeVars, healthVars, sideVars>>

\* main after the select: server.GracefulStop(), return, and the deferred
\* os.Exit(retcode). Nothing waits for the goroutine running startTurn.
ProcessExit ==
    /\ mainPc = "stopping"
    /\ mainPc' = "exited"
    /\ UNCHANGED <<panVars, queueVars, maestroVars, gwVars>>
    /\ UNCHANGED <<unsubVars, smokeVars, healthVars, sideVars>>

\* The goroutines of the maestro process run until the process has exited.
MaestroProcess ==
    /\ mainPc # "exited"
    /\ (MaestroLoop \/ LunchTick)

ShutdownNext ==
    \/ MaestroProcess
    \/ QueueEnv
    \/ PanServer
    \/ ShutdownSignal
    \/ ProcessExit

\* The maestro process with a shutdown signal arriving at any moment.
SpecShutdown == Init /\ [][ShutdownNext]_vars

\* C20: the maestro process never exits while an order is between a successful
\* MakeDough and its acknowledgement.
C20_NoExitBetweenDoughAndAck ==
    mainPc = "exited" => ~(cur # 0 /\ doughOk /\ cur \notin acked)

\* C21: every insertion into, deletion from and lookup in the gateway's subscriber
\* set happens under one lock, so no two handlers are ever inside the set at the
\* same time.
C21_SubscriberSetAccessesExcludeEachOther ==
    Cardinality(InMapAccess) <= 1

\* The broadcaster with its scheduling: a handler or a PubOrder that can take its
\* next step takes it (goroutines are scheduled, a free mutex is acquired, a
\* ready channel hands over). Clients connect, disconnect and publish as they like.
FairSpecBroadcaster ==
    /\ SpecBroadcaster
    /\ \A h \in Handlers :
         /\ WF_vars(HandlerNotified(h))
         /\ WF_vars(UnsubLiveOrders(h))
         /\ WF_vars(HandlerWrite(h))
    /\ \A e \in Events :
         /\ WF_vars(PubOrderNext(e))
         /\ WF_vars(PubOrderUnlock(e))
         /\ \A h \in Handlers : WF_vars(ChannelHandOver(e, h))

\* C22: an observer whose client has disconnected, or whose write failed, is
\* eventually removed from the subscriber set: its UnsubLiveOrders completes.
C22_DisconnectedObserverIsRemoved ==
    \A h \in Handlers :
        (h \in liveEventSubscribers /\ (hCancelled[h] \/ hPc[h] = "unsub"))
            ~> (h \notin liveEventSubscribers)

(***************************************************************************)
(* UnsubLiveOrders called for a handle that is not registered              *)
(***************************************************************************)
MaxUnsubCalls == 2

\* GoChannelOrderPubSubber.UnsubLiveOrders for a handle no handler is serving
\* (never subscribed, or already unsubscribed): lock, delete, unlock, return nil.
UnsubLiveOrdersAgain(h) ==
    /\ hPc[h] \in {"none", "closed"}
    /\ Len(unsubReturns[<<"chan", h>>]) < MaxUnsubCalls
    /\ mu = 0
    /\ liveEventSubscribers' = Deleted(liveEventSubscribers, h)
    /\ unsubReturns' = [unsubReturns EXCEPT ![<<"chan", h>>] = Append(@, "nil")]
    /\ UNCHANGED <<mu, hPc, hCancelled, hEvent, hReceived, pubPc, pubRemaining, pubTarget>>
    /\ UNCHANGED <<panVars, queueVars, maestroVars, natsVars, mainPc, smokeVars, healthVars, sideVars>>

\* NATSOrderPubSubber.UnsubLiveOrders for such a handle: cons, ok := n.subs[flusher]
\* finds nothing, the call warns and returns nil. Its lookup is as unguarded as
\* every other access: overlapping a handler's write the runtime may end the process.
NatsUnsubLiveOrdersAgain(h) ==
    /\ nPc[h] \in {"none", "closed"}
    /\ Len(unsubReturns[<<"nats", h>>]) < MaxUnsubCalls
    /\ \/ /\ nSubs' = NatsDeleted(nSubs, h)
          /\ unsubReturns' = [unsubReturns EXCEPT ![<<"nats", h>>] = Append(@, "nil")]
          /\ UNCHANGED nPc
       \/ /\ InMapAccess # {}
          /\ GatewayCrash
          /\ UNCHANGED unsubReturns
    /\ UNCHANGED <<nCursor, nEvent, nReceived, nRegLen>>
    /\ UNCHANGED <<panVars, queueVars, maestroVars, chanVars, mainPc, smokeVars, healthVars, sideVars>>

UnsubNext ==
    \/ \E h \in Handlers : SubLiveOrders(h)
    \/ \E h \in Handlers : ClientDisconnect(h)
    \/ \E h \in Handlers : HandlerNotified(h)
    \/ \E h \in Handlers : UnsubLiveOrders(h)
    \/ \E h \in Handlers : UnsubLiveOrdersAgain(h)
    \/ \E h \in Handlers : NatsSubLiveOrders(h)
    \/ \E h \in Handlers : NatsSubStore(h)
    \/ \E h \in Handlers : NatsUnsubLiveOrders(h)
    \/ \E h \in Handlers : NatsUnsubDelete(h)
    \/ \E h \in Handlers : NatsUnsubLiveOrdersAgain(h)

\* Observers coming and going on either implementation of OrderPubSubber, with
\* UnsubLiveOrders called again for handles that are not registered.
SpecUnsub == Init /\ [][UnsubNext]_vars

\* C23: UnsubLiveOrders for a handle that is not registered returns nil and
\* leaves the subscriber set as it was, so a second call changes nothing the
\* first one left.
C23_UnsubIsIdempotent ==
    [][/\ \A h \in Handlers :
            (unsubReturns'[<<"chan", h>>] # unsubReturns[<<"chan", h>>]
               /\ h \notin liveEventSubscribers) =>
                 /\ liveEventSubscribers' = liveEventSubscribers
                 /\ unsubReturns'[<<"chan", h>>] = Append(unsubReturns[<<"chan", h>>], "nil")
       /\ \A h \in Handlers :
            (unsubReturns'[<<"nats", h>>] # unsubReturns[<<"nats", h>>]
               /\ h \notin nSubs) =>
                 /\ nSubs' = nSubs
                 /\ unsubReturns'[<<"nats", h>>] = Append(unsubReturns[<<"nats", h>>], "nil")
       /\ \A h \in Handlers :
            /\ Deleted(Deleted(liveEventSubscribers, h), h) = Deleted(liveEventSubscribers, h)
            /\ NatsDeleted(NatsDeleted(nSubs, h), h) = NatsDeleted(nSubs, h)]_vars

\* UnsubLiveOrders has returned twice for a handle that is not registered, while
\* another observer is.
C23_Witness ==
    \E h \in Handlers :
        /\ Len(unsubReturns[<<"chan", h>>]) = 2
        /\ h \notin liveEventSubscribers
        /\ liveEventSubscribers # {}

\* C24: PubOrder with no subscriber registered is a no-op: it has nothing to send
\* (its next step is the unlock and return), whoever holds g.mu then is about to
\* release it, and the subscriber set stays empty through the call.
C24_PubOrderWithoutSubscribersIsNoOp ==
    /\ [](liveEventSubscribers = {} /\ mu # 0 =>
             pubPc[mu] = "range" /\ pubRemaining[mu] = {})
    /\ [][\A e \in Events :
            (pubPc'[e] # pubPc[e] /\ liveEventSubscribers = {}) =>
                /\ liveEventSubscribers' = {}
                /\ pubRemaining'[e] = {}
                /\ pubPc'[e] \in {"range", "done"}
                /\ UNCHANGED <<hPc, hEvent, hReceived>>]_vars

\* A PubOrder has returned although nobody ever subscribed.
C24_Witness ==
    \E e \in Events :
        /\ pubPc[e] = "done"
        /\ \A h \in Handlers : hPc[h] = "none"

\* C25: isWorkingOnDough is true exactly when at least one accepted MakeDough
\* call (marked as working, its deferred release registered) has not yet released.
C25_WorkingFlagTracksUnreleasedCalls ==
    isWorkingOnDough <=> (\E c \in Callers : callPc[c] = "work")

\* C26: the maestro's smoking break lasts the base duration, and when the
\* oversmoking draw succeeds the break it actually sleeps lasts the base duration
\* times OversmokingFactor.
C26_OversmokingLengthensTheBreak ==
    mPc = "smoking" =>
        sleepDuration = IF oversmoked
                          THEN SmokingDurationInSeconds * OversmokingFactor
                          ELSE SmokingDurationInSeconds

\* C27: the maestro smokes exactly once after each order it processed, before the
\* next message of the batch: a successful acknowledgement goes straight into
\* the smoke, a smoke starts only for the current order with its dough made, its
\* republish done and its message acknowledged, processNewOrder returns either
\* from the end of that smoke or from a failure without any smoke, and no
\* message is started while a smoke is in progress.
C27_OneSmokeAfterEachProcessedOrder ==
    [][/\ (mPc = "ack" /\ acked' # acked) =>
            (mPc' = "smoke" /\ cur' = cur /\ acked' = acked \cup {cur})
       /\ (~isSmoking /\ isSmoking') =>
            (mPc = "smoke" /\ cur # 0 /\ cur' = cur /\ cur \in acked /\ doughOk /\ pubOk)
       /\ (isSmoking /\ ~isSmoking') =>
            (mPc = "smoking" /\ cur # 0 /\ cur' = 0 /\ mPc' = "next"
               /\ smokeHistogram' = sleepDuration)
       /\ (cur # 0 /\ cur' # cur) =>
            \/ mPc = "smoking" /\ isSmoking
            \/ /\ mPc \in {"unmarshal", "requestDough", "awaitDough", "attemptFailed", "publish", "ack"}
               /\ ~isSmoking /\ ~isSmoking'
               /\ UNCHANGED <<acked, smokeHistogram>>
       /\ (cur = 0 /\ cur' # 0) => (~isSmoking /\ ~isSmoking')]_vars

\* The maestro smokes after an order while another message of the same batch
\* is still to come.
C27_Witness ==
    /\ mPc = "smoking"
    /\ isSmoking
    /\ batch # <<>>

\* The maestro is inside processNewOrder, before its smoke.
Processing ==
    mPc \in {"unmarshal", "requestDough", "awaitDough", "attemptFailed", "publish",
             "ack", "smoke"}

\* C28: at most one of processing, smoking and lunching is active at a time:
\* isSmoking and isLunching are never both true, neither is true while an order
\* is being processed, and a lunch is in progress only when every message of the
\* current batch has been handled.
C28_OneActivityAtATime ==
    /\ ~(isSmoking /\ isLunching)
    /\ Processing => (~isSmoking /\ ~isLunching /\ cur # 0)
    /\ isSmoking <=> mPc = "smoking"
    /\ isSmoking => mStatus = <<"smoking">>
    /\ isLunching <=> mPc = "lunching"
    /\ isLunching => (batch = <<>> /\ cur = 0 /\ mStatus = <<"lunching">>)

\* The maestro lunches after a batch in which it acknowledged an order.
C28_Witness ==
    /\ isLunching
    /\ acked # {}

(***************************************************************************)
(* The health goroutines                                                   *)
(***************************************************************************)
\* The goroutine runs as long as its process (the maestro's exit is modelled).
HealthLoopRuns(v) == v = PanettiereLoop \/ mainPc # "exited"

\* for { healthcheck.SetServingStatus(system, status): the loop first publishes
\* the status left by its previous iteration.
HealthPublish(v) ==
    /\ HealthLoopRuns(v)
    /\ hlPc[v] = "publish"
    /\ hlServing' = [hlServing EXCEPT ![v] = hlStatus[v]]
    /\ hlPc' = [hlPc EXCEPT ![v] = "poll"]
    /\ UNCHANGED <<natsConnected, hlStatus, hlObserved>>
    /\ UNCHANGED <<panVars, queueVars, maestroVars, gwVars, mainPc, unsubVars, smokeVars, sideVars>>

\* What the loop looks at: panettiereService.isSleeping (read without p.mu),
\* nc.IsConnected().
Healthy(v) == IF v = PanettiereLoop THEN ~isSleeping ELSE natsConnected

\* The status the poll leaves in the local variable: the panettiere's loop and
\* the maestro's set it either way, the el-maestro loop has no else branch and
\* keeps what it had when the connection is up.
Polled(v, healthy, old) ==
    IF ~healthy THEN NotServing
    ELSE IF v = ElMaestroLoop THEN old ELSE Serving

\* The if of the loop, then time.Sleep(sleepDuration) and the next iteration.
HealthPoll(v) ==
    /\ HealthLoopRuns(v)
    /\ hlPc[v] = "poll"
    /\ hlObserved' = [hlObserved EXCEPT ![v] = IF Healthy(v) THEN "up" ELSE "down"]
    /\ hlStatus' = [hlStatus EXCEPT ![v] = Polled(v, Healthy(v), @)]
    /\ hlPc' = [hlPc EXCEPT ![v] = "publish"]
    /\ UNCHANGED <<natsConnected, hlServing>>
    /\ UNCHANGED <<panVars, queueVars, maestroVars, gwVars, mainPc, unsubVars, smokeVars, sideVars>>

\* The connection to the NATS server drops; the client reconnects.
NatsConnectionLost ==
    /\ natsConnected
    /\ natsConnected' = FALSE
    /\ UNCHANGED <<hlPc, hlStatus, hlServing, hlObserved>>
    /\ UNCHANGED <<panVars, queueVars, maestroVars, gwVars, mainPc, unsubVars, smokeVars, sideVars>>

NatsReconnected ==
    /\ ~natsConnected
    /\ natsConnected' = TRUE
    /\ UNCHANGED <<hlPc, hlStatus, hlServing, hlObserved>>
    /\ UNCHANGED <<panVars, queueVars, maestroVars, gwVars, mainPc, unsubVars, smokeVars, sideVars>>

PanHealthNext ==
    \/ PanNext
    \/ HealthPublish(PanettiereLoop)
    \/ HealthPoll(PanettiereLoop)

\* The panettiere with its health goroutine.
SpecPanHealth == Init /\ [][PanHealthNext]_vars

MaestroHealthNext ==
    \/ NatsConnectionLost
    \/ NatsReconnected
    \/ \E v \in MaestroLoops : HealthPublish(v)
    \/ \E v \in MaestroLoops : HealthPoll(v)
    \/ ShutdownSignal
    \/ ProcessExit

\* The maestro's health goroutine (both mains) over a connection that comes and
\* goes, until the process exits.
SpecMaestroHealth == Init /\ [][MaestroHealthNext]_vars

\* The status that stands for what a poll found.
StatusFor(observed) == IF observed = "down" THEN NotServing ELSE Serving

\* C29: whenever the panettiere's health loop has finished an iteration, the
\* status it published in that iteration is the one for the sleeping state it
\* observed in that iteration: NOT_SERVING when sleeping, SERVING otherwise.
C29_PublishedStatusIsThisIterationsObservation ==
    (hlPc[PanettiereLoop] = "publish" /\ hlObserved[PanettiereLoop] # "none") =>
        hlServing[PanettiereLoop] = StatusFor(hlObserved[PanettiereLoop])

\* C30: the maestro's health status follows the NATS connection both ways: what
\* the loop publishes after a poll is NOT_SERVING when that poll found the
\* connection down and SERVING when it found it up.
C30_HealthFollowsConnectionBothWays ==
    [][\A v \in MaestroLoops :
         (hlPc[v] = "publish" /\ hlPc'[v] = "poll" /\ hlObserved[v] # "none") =>
             hlServing'[v] = StatusFor(hlObserved[v])]_vars

\* C31: at most one goroutine waits on the lunch ticker: either one waiter is
\* blocked on the ticker or its tick has been received (hasTicketed), never
\* both and never two waiters, and a new waiter is spawned only when the
\* previous one has received its tick and gone.
C31_OneLunchWaiter ==
    /\ [](lunchWaiters <= 1 /\ (lunchWaiters = 1 <=> ~hasTicketed))
    /\ [][lunchWaiters' > lunchWaiters =>
             (lunchWaiters = 0 /\ hasTicketed /\ isLunching /\ lunchWaiters' = 1)]_vars

\* A second waiter is on the ticker: the maestro has come back from a lunch
\* (its status is idle though it never acknowledged, so never smoked).
C31_Witness ==
    /\ lunchWaiters = 1
    /\ mStatus = <<"idle">>
    /\ acked = {}

(***************************************************************************)
(* CORSSettings and validate.Struct                                        *)
(***************************************************************************)
MaxListLen == 2

\* An origin string, cut at its "://": <<scheme, rest>>, or the string alone.
SomeOrigins == {<<"https", "example.com">>, <<"*">>, <<"example.com">>, <<"">>}
SomeMethods == {"GET", "HEAD", "FOO", "get"}
SomeHeaders == {"Accept", "X-CSRF-Token", "X-INVALID", "accept"}

\* The sequences over S of length 0..MaxListLen.
ListsOver(S) == UNION {[1..n -> S] : n \in 0..MaxListLen}

CorsConfigs ==
    [origins : ListsOver(SomeOrigins), methods : ListsOver(SomeMethods),
     headers : ListsOver(SomeHeaders)]

\* The url tag: a non-empty string that url.ParseRequestURI accepts and that has
\* a scheme ("*" parses, to a path without scheme; a string with neither a
\* scheme nor a leading slash does not parse).
IsURL(s) == Len(s) = 2 /\ s[1] # ""

\* oneof=GET POST PUT DELETE OPTIONS PATCH HEAD: the values are compared as written.
AllowedMethods == {"GET", "POST", "PUT", "DELETE", "OPTIONS", "PATCH", "HEAD"}
IsMethod(m) == m \in AllowedMethods

\* The baseheader validation LoadConfig registers: a lookup in allowedHeaders.
allowedHeaders == {"Accept", "Authorization", "Content-Type", "X-CSRF-Token"}
IsBaseHeader(h) == h \in allowedHeaders

\* The element tag of each field of CORSSettings, after dive.
ElementOK(field, x) ==
    CASE field = "origins" -> IsURL(x)
      [] field = "methods" -> IsMethod(x)
      [] field = "headers" -> IsBaseHeader(x)

\* The errors validate.Struct collects for one field: min=1 on the slice, and
\* only when that passed, dive and the element tag on every element.
FieldErrors_EmptyPasses(field, list) ==
    {i \in 1..Len(list) : ~ElementOK(field, list[i])}

FieldErrors(field, list) ==
    IF Len(list) < 1 THEN {0}
    ELSE {i \in 1..Len(list) : ~ElementOK(field, list[i])}

\* validate.Struct(cors): nil when no field has an error.
ValidateStruct(c) ==
    IF /\ FieldErrors("origins", c.origins) = {}
       /\ FieldErrors("methods", c.methods) = {}
       /\ FieldErrors("headers", c.headers) = {}
    THEN "ok" ELSE "error"

\* LoadConfig: viper.Unmarshal, then validate.Struct.
LoadConfig(c) ==
    /\ corsResult = "none"
    /\ cors' = c
    /\ corsResult' = ValidateStruct(c)
    /\ UNCHANGED <<panVars, queueVars, maestroVars, gwVars, mainPc, unsubVars,
                   smokeVars, healthVars, wsVars>>

ConfigNext == \E c \in CorsConfigs : LoadConfig(c)

\* Every CORS configuration the lists allow, loaded and validated.
SpecConfig == Init /\ [][ConfigNext]_vars

\* C32: validation accepts a CORS configuration exactly when origins, methods
\* and headers are each non-empty, every origin is a URL, every method is one of
\* GET POST PUT DELETE OPTIONS PATCH HEAD and every header is one of Accept,
\* Authorization, Content-Type, X-CSRF-Token.
C32_CorsAcceptedIffAllListsValid ==
    corsResult # "none" =>
        (corsResult = "ok" <=>
            /\ cors.origins # <<>> /\ cors.methods # <<>> /\ cors.headers # <<>>
            /\ \A i \in 1..Len(cors.origins) : IsURL(cors.origins[i])
            /\ \A i \in 1..Len(cors.methods) :
                 cors.methods[i] \in {"GET", "POST", "PUT", "DELETE", "OPTIONS",
                                      "PATCH", "HEAD"}
            /\ \A i \in 1..Len(cors.headers) :
                 cors.headers[i] \in {"Accept", "Authorization", "Content-Type",
                                      "X-CSRF-Token"})

\* A configuration with two good entries in two lists and one bad header among
\* two has been refused.
C32_Witness ==
    /\ corsResult = "error"
    /\ Len(cors.origins) = 2 /\ \A i \in 1..2 : IsURL(cors.origins[i])
    /\ cors.methods = <<"GET", "HEAD">>
    /\ cors.headers = <<"Accept", "X-INVALID">>

(***************************************************************************)
(* The maestro's loop over a connection that can fail                      *)
(***************************************************************************)
\* consumer.Fetch returns an error (the connection is closed): the batch it
\* returns is nil, getNewBatchMessages drops the error and calls msgs.Messages()
\* on it, and the nil dereference ends the process from inside startTurn.
FetchPanics ==
    /\ mainPc # "exited"
    /\ mPc = "fetch"
    /\ ~natsConnected
    /\ mainPc' = "exited"
    /\ UNCHANGED <<panVars, queueVars, maestroVars, gwVars, unsubVars, smokeVars,
                   healthVars, sideVars>>

OutageNext ==
    \/ MaestroProcess
    \/ \E o \in OrderIds : OrderNewPizza(o, GoodRequest)
    \/ PanServer
    \/ NatsConnectionLost
    \/ NatsReconnected
    \/ FetchPanics

\* The maestro under fair scheduling while the NATS connection comes and goes.
FairSpecOutage ==
    /\ Init /\ [][OutageNext]_vars
    /\ WF_vars(MaestroProcess)
    /\ WF_vars(WakeUp)
    /\ \A c \in Callers : WF_vars(MakeDoughCheck(c) \/ MakeDoughMark(c)
                                    \/ MakeDoughRelease(c) \/ CheckAndSleep(c))

notWsVars == <<panVars, queueVars, maestroVars, gwVars, mainPc, unsubVars, smokeVars,
               healthVars, configVars>>

\* GetLiveOrdersRequests: upgrader.Upgrade succeeded, the handler is at h.mu.Lock().
WsUpgrade(h) ==
    /\ wsPc[h] = "none"
    /\ wsPc' = [wsPc EXCEPT ![h] = "lock"]
    /\ wsOpen' = wsOpen \cup {h}
    /\ UNCHANGED <<wsMu, wsSubs, wsEvent, wsReceived, wsOrderPc, wsRemaining, wsTarget>>
    /\ UNCHANGED notWsVars

\* h.mu.Lock() returns for handler h. At the top of the handler it registers the
\* channel and enters the loop, still holding h.mu (defer h.mu.Unlock() runs at
\* return). In the deferred cleanup it deletes the entry, closes the socket and
\* both deferred unlocks run.
WsLock(h) ==
    /\ wsMu = 0
    /\ \/ /\ wsPc[h] = "lock"
          /\ wsMu' = h
          /\ wsSubs' = wsSubs \cup {h}
          /\ wsPc' = [wsPc EXCEPT ![h] = "loop"]
          /\ UNCHANGED wsOpen
       \/ /\ wsPc[h] = "cleanup"
          /\ wsMu' = 0
          /\ wsSubs' = wsSubs \ {h}
          /\ wsOpen' = wsOpen \ {h}
          /\ wsPc' = [wsPc EXCEPT ![h] = "returned"]
    /\ UNCHANGED <<wsEvent, wsReceived, wsOrderPc, wsRemaining, wsTarget>>
    /\ UNCHANGED notWsVars

\* OrderNewPizza of this gateway: the order is stored and the range over
\* h.liveEventSubscribers begins (h.mu is not taken).
WsOrderNewPizza(e) ==
    /\ wsOrderPc[e] = "idle"
    /\ wsRemaining' = [wsRemaining EXCEPT ![e] = wsSubs]
    /\ wsOrderPc' = [wsOrderPc EXCEPT ![e] = "range"]
    /\ UNCHANGED <<wsMu, wsSubs, wsOpen, wsPc, wsEvent, wsReceived, wsTarget>>
    /\ UNCHANGED notWsVars

\* The range loop reaches a subscriber and starts subChan <- newOrder, or is
\* over and the handler answers.
WsOrderNext(e) ==
    /\ wsOrderPc[e] = "range"
    /\ IF wsRemaining[e] = {}
         THEN /\ wsOrderPc' = [wsOrderPc EXCEPT ![e] = "done"]
              /\ UNCHANGED <<wsRemaining, wsTarget>>
         ELSE \E h \in wsRemaining[e] :
                /\ wsTarget' = [wsTarget EXCEPT ![e] = h]
                /\ wsRemaining' = [wsRemaining EXCEPT ![e] = @ \ {h}]
                /\ wsOrderPc' = [wsOrderPc EXCEPT ![e] = "send"]
    /\ UNCHANGED <<wsMu, wsSubs, wsOpen, wsPc, wsEvent, wsReceived>>
    /\ UNCHANGED notWsVars

\* The unbuffered channel hands the order to resp := <-h.liveEventSubscribers[ws].
WsHandOver(e, h) ==
    /\ wsOrderPc[e] = "send"
    /\ wsTarget[e] = h
    /\ wsPc[h] = "loop"
    /\ wsEvent' = [wsEvent EXCEPT ![h] = e]
    /\ wsPc' = [wsPc EXCEPT ![h] = "write"]
    /\ wsTarget' = [wsTarget EXCEPT ![e] = 0]
    /\ wsOrderPc' = [wsOrderPc EXCEPT ![e] = "range"]
    /\ UNCHANGED <<wsMu, wsSubs, wsOpen, wsReceived, wsRemaining>>
    /\ UNCHANGED notWsVars

\* ws.WriteJSON(resp): on success the loop goes on; on failure the handler
\* returns the error and its deferred functions start, last registered first:
\* the cleanup closure, at its h.mu.Lock().
WsWriteJSON(h) ==
    /\ wsPc[h] = "write"
    /\ \/ /\ wsReceived' = [wsReceived EXCEPT ![h] = @ \cup {wsEvent[h]}]
          /\ wsPc' = [wsPc EXCEPT ![h] = "loop"]
       \/ /\ wsPc' = [wsPc EXCEPT ![h] = "cleanup"]
          /\ UNCHANGED wsReceived
    /\ wsEvent' = [wsEvent EXCEPT ![h] = 0]
    /\ UNCHANGED <<wsMu, wsSubs, wsOpen, wsOrderPc, wsRemaining, wsTarget>>
    /\ UNCHANGED notWsVars

WsNext ==
    \/ \E h \in Handlers : WsUpgrade(h)
    \/ \E h \in Handlers : WsLock(h)
    \/ \E h \in Handlers : WsWriteJSON(h)
    \/ \E e \in Events : WsOrderNewPizza(e)
    \/ \E e \in Events : WsOrderNext(e)
    \/ \E e \in Events, h \in Handlers : WsHandOver(e, h)

\* The websocket gateway under fair scheduling: a goroutine that can take its
\* next step takes it; observers connect and orders arrive as they like.
FairSpecWebsocket ==
    /\ Init /\ [][WsNext]_vars
    /\ \A h \in Handlers : WF_vars(WsLock(h)) /\ WF_vars(WsWriteJSON(h))
    /\ \A e \in Events :
         /\ WF_vars(WsOrderNext(e))
         /\ \A h \in Handlers : WF_vars(WsHandOver(e, h))

\* C34: when a write to the observer fails, the deferred cleanup runs to
\* completion: the connection's entry is deleted, the socket closed and h.mu
\* released.
C34_CleanupCompletesAfterFailedWrite ==
    \A h \in Handlers :
        (wsPc[h] = "cleanup") ~> (h \notin wsSubs /\ h \notin wsOpen /\ wsMu # h)

\* C35: isSleeping is true exactly when one wake-up timer is pending: there is
\* never more than one, a sleep is started only when isSleeping is false, and a
\* wake-up ends the one sleep in progress.
C35_SleepingIffOneWakeUpPending ==
    /\ [](wakeTimers <= 1 /\ (isSleeping <=> wakeTimers = 1))
    /\ [][/\ wakeTimers' > wakeTimers => (~isSleeping /\ isSleeping')
          /\ wakeTimers' < wakeTimers => (isSleeping /\ ~isSleeping' /\ wakeTimers' = 0)]_vars

\* The panettiere sleeps, one wake-up pending, after a call it has served.
C35_Witness ==
    /\ isSleeping
    /\ wakeTimers = 1
    /\ \E c \in Callers : callResult[c] = "OK"

\* C36: the deferred-sleep mark is never left dangling: shouldSleep is false
\* whenever the panettiere is sleeping with no MakeDough call in progress, and
\* whenever it is awake and idle with no call in progress.
C36_NoDanglingSleepMark ==
    (\A c \in Callers : callPc[c] \in {"idle", "ret"}) => ~shouldSleep

\* The stream positions the maestro's consumer has ever handed to the maestro.
DeliveredToMaestro ==
    ackPending \cup acked \cup Range(batch) \cup Range(redeliverQ) \cup ({cur} \ {0})

\* C37: the maestro never consumes its own output: every message it publishes
\* is on waiting_delivery.<order_id>, which its filter waiting_to_cook.* does not
\* match, and no such message is ever delivered to it.
C37_MaestroNeverFetchesItsOutput ==
    /\ [](\A p \in 1..Len(stream) :
            stream[p].subj = WaitingDelivery => p \notin DeliveredToMaestro)
    /\ [][(mPc = "publish" /\ mPc' = "ack") =>
            /\ stream' = Append(stream, stream'[Len(stream')])
            /\ stream'[Len(stream')].subj = WaitingDelivery
            /\ stream'[Len(stream')].id = stream[cur].id
            /\ ~MatchesFilter(stream'[Len(stream')])]_vars

\* The maestro has fetched again after its republish went into the stream: the
\* consumer has gone past the waiting_delivery message.
C37_Witness ==
    \E p \in 1..Len(stream) :
        /\ stream[p].subj = WaitingDelivery
        /\ nextDeliver >= p
        /\ mPc = "next"

\* C38: the maestro's status is not "processing order <id>" when it is not
\* processing an order: once processNewOrder has returned, on any path, the
\* status has left that value.
C38_StatusLeavesProcessingOnReturn ==
    cur = 0 => \A o \in OrderIds : mStatus # MStatusProcessing(o)

====
